---------------------------- MODULE Spec2Model ----------------------------
(***************************************************************************)
(* Steel_Planning.ipynb: a Pyomo model of the steel production planning    *)
(* LP, solved with GLPK.  The notebook is modelled as it runs top to       *)
(* bottom ("Run All"): the installation cell, the step-by-step cells of    *)
(* sections 3.2-3.4, then the "Complete Script" cell of section 3.5.  An   *)
(* exception in a cell stops the run.                                      *)
(*                                                                         *)
(* Numbers are exact rationals <<n, d>> with d > 0 in lowest terms.  The   *)
(* Python floats 1/rB and 1/rC and GLPK's floating-point simplex are       *)
(* modelled by exact arithmetic, so every statement about reported values  *)
(* is a statement up to the solver's numerical tolerance.                  *)
(***************************************************************************)
EXTENDS Integers, Sequences, FiniteSets, TLC

VARIABLES pc, env, data, model, sol, out, queried, steps, first

vars == <<pc, env, data, model, sol, out, queried, steps, first>>

(***************************************************************************)
(* Bounds of the parametric instances ("this may change, but the model     *)
(* stay the same").                                                        *)
(***************************************************************************)
MaxPrice == 2
MaxRate == 2
MaxDemand == 2
MaxT == 2

-----------------------------------------------------------------------------
(* Python values: None, and a present value.                               *)
None == <<>>
Some(v) == <<v>>
Get(o) == o[1]

-----------------------------------------------------------------------------
(* Exact rational arithmetic.                                              *)
Abs(n) == IF n < 0 THEN -n ELSE n

RECURSIVE GCD(_, _)
GCD(a, b) == IF b = 0 THEN a ELSE GCD(b, a % b)

Rat(n, d) ==
    LET g == GCD(Abs(n), Abs(d))
        s == IF d < 0 THEN -1 ELSE 1
    IN  <<(s * n) \div g, (s * d) \div g>>

R(n) == <<n, 1>>
RAdd(a, b) == Rat(a[1] * b[2] + b[1] * a[2], a[2] * b[2])
RSub(a, b) == Rat(a[1] * b[2] - b[1] * a[2], a[2] * b[2])
RMul(a, b) == Rat(a[1] * b[1], a[2] * b[2])
RDiv(a, b) == Rat(a[1] * b[2], a[2] * b[1])
RLeq(a, b) == a[1] * b[2] <= b[1] * a[2]
RLt(a, b) == a[1] * b[2] < b[1] * a[2]


-----------------------------------------------------------------------------
(* The data literals of the "Define the data" cell (section 3.2).          *)
Cell_pB == 25
Cell_pC == 30
Cell_rB == 200
Cell_rC == 140
Cell_dB == 6000
Cell_dC == 4000
Cell_T == 40

(* The data literals of the "Complete Script" cell (section 3.5).          *)
Script_pB == 25
Script_pC == 30
Script_rB == 200
Script_rC == 140
Script_dB == 6000
Script_dC == 4000
Script_T == 40

DataNames == {"pB", "pC", "rB", "rC", "dB", "dC", "T"}

(* The kernel's namespace before any data statement has run.               *)
NoData == [n \in DataNames |-> None]

-----------------------------------------------------------------------------
(* Pyomo components.                                                       *)

(* ConcreteModel(): a model with no component, no variable value.          *)
ConcreteModel ==
    [xB |-> None, xC |-> None, cost |-> None, cnstr1 |-> None,
     xBval |-> None, xCval |-> None]

(* The lower bound of the domain NonNegativeReals.                         *)
NonNegativeReals == R(0)

RMax(a, b) == IF RLeq(a, b) THEN b ELSE a

(* Var(domain=dom, bounds=(lo, hi)): the effective lower bound is the      *)
(* tighter of the domain's and the declared one; hi is None or Some(u).    *)
Var(dom, lo, hi) == [lb |-> RMax(dom, lo), ub |-> hi]

(* Objective(expr = cB*xB + cC*xC, sense = sense).                         *)
Objective(cB, cC, sense) == [cB |-> cB, cC |-> cC, sense |-> sense]

(* Constraint(expr = aB*xB + aC*xC <= rhs).                                *)
Constraint(aB, aC, rhs) == [aB |-> aB, aC |-> aC, rhs |-> rhs]

(* The statements of the step-by-step cells, on the namespace d.           *)
Cell_DeclareXB(d) == Var(NonNegativeReals, R(0), Some(R(Get(d.dB))))
Cell_DeclareXC(d) == Var(NonNegativeReals, R(0), Some(R(Get(d.dC))))
Cell_DeclareCost(d) == Objective(R(Get(d.pB)), R(Get(d.pC)), "maximize")
Cell_DeclareCnstr1(d) ==
    Constraint(RDiv(R(1), R(Get(d.rB))), RDiv(R(1), R(Get(d.rC))), R(Get(d.T)))

(* Faulty variants of the script's statements.                             *)
(* bounds=(0,None): the demand bound is left out.                          *)
Script_DeclareXB_Unbounded(d) == Var(NonNegativeReals, R(0), None)
(* bounds=(0,dC): the other product's demand.                              *)
Script_DeclareXB_UsesDC(d) == Var(NonNegativeReals, R(0), Some(R(Get(d.dC))))
(* bounds=(dB,0): the bounds in the wrong order.                           *)
Script_DeclareXB_SwappedBounds(d) ==
    Var(NonNegativeReals, R(Get(d.dB)), Some(R(0)))
(* bounds=(0,dB) on xC.                                                    *)
Script_DeclareXC_UsesDB(d) == Var(NonNegativeReals, R(0), Some(R(Get(d.dB))))
(* sense = minimize.                                                       *)
Script_DeclareCost_Minimize(d) ==
    Objective(R(Get(d.pB)), R(Get(d.pC)), "minimize")
(* rB*xB + rC*xC <= T: the rates, not their reciprocals.                   *)
Script_DeclareCnstr1_NoReciprocal(d) ==
    Constraint(R(Get(d.rB)), R(Get(d.rC)), R(Get(d.T)))
(* 1/rC*xB + 1/rB*xC <= T: the rates exchanged.                            *)
Script_DeclareCnstr1_SwappedRates(d) ==
    Constraint(RDiv(R(1), R(Get(d.rC))), RDiv(R(1), R(Get(d.rB))), R(Get(d.T)))
(* 1/rB*xB + 1/rC*xC >= T, as -1/rB*xB - 1/rC*xC <= -T.                    *)
Script_DeclareCnstr1_Geq(d) ==
    Constraint(RDiv(R(-1), R(Get(d.rB))), RDiv(R(-1), R(Get(d.rC))),
               R(-Get(d.T)))

(* The same statements of the "Complete Script" cell.                      *)
Script_DeclareXB(d) == Var(NonNegativeReals, R(0), Some(R(Get(d.dB))))
Script_DeclareXC(d) == Var(NonNegativeReals, R(0), Some(R(Get(d.dC))))
Script_DeclareCost(d) == Objective(R(Get(d.pB)), R(Get(d.pC)), "maximize")
Script_DeclareCnstr1(d) ==
    Constraint(RDiv(R(1), R(Get(d.rB))), RDiv(R(1), R(Get(d.rC))), R(Get(d.T)))

-----------------------------------------------------------------------------
(* The LP a model states, and its solution by the solver.  m.xB, m.xC,     *)
(* m.cost and m.cnstr1 are present.                                        *)

(* expr value of cB*xB + cC*xC at the point p = <<xB, xC>>.                *)
ObjValue(m, p) ==
    RAdd(RMul(Get(m.cost).cB, p[1]), RMul(Get(m.cost).cC, p[2]))

(* body of cnstr1 at p.                                                    *)
CnstrBody(m, p) ==
    RAdd(RMul(Get(m.cnstr1).aB, p[1]), RMul(Get(m.cnstr1).aC, p[2]))

InBounds(v, x) ==
    /\ RLeq(v.lb, x)
    /\ (v.ub # None => RLeq(x, Get(v.ub)))

(* p satisfies the variable bounds and the constraint.                     *)
Feasible(m, p) ==
    /\ InBounds(Get(m.xB), p[1])
    /\ InBounds(Get(m.xC), p[2])
    /\ RLeq(CnstrBody(m, p), Get(m.cnstr1).rhs)

(* The finite bounds of a variable.                                        *)
BoundValues(v) == {v.lb} \cup (IF v.ub = None THEN {} ELSE {Get(v.ub)})

(* The basic solutions: the points where two of the bounding lines meet.   *)
BasicPoints(m) ==
    LET c  == Get(m.cnstr1)
        BV == BoundValues(Get(m.xB))
        CV == BoundValues(Get(m.xC))
    IN  {<<b, cc>> : b \in BV, cc \in CV}
        \cup (IF c.aC[1] = 0 THEN {}
              ELSE {<<b, RDiv(RSub(c.rhs, RMul(c.aB, b)), c.aC)>> : b \in BV})
        \cup (IF c.aB[1] = 0 THEN {}
              ELSE {<<RDiv(RSub(c.rhs, RMul(c.aC, cc)), c.aB), cc>> : cc \in CV})

(* The vertices of the feasible region.                                    *)
Vertices(m) == {p \in BasicPoints(m) : Feasible(m, p)}

(* Directions in which the feasible region is unbounded (its extreme rays). *)
Rays(m) ==
    LET c  == Get(m.cnstr1)
        fB == Get(m.xB).ub = None
        fC == Get(m.xC).ub = None
    IN  (IF fB /\ c.aB[1] <= 0 THEN {<<R(1), R(0)>>} ELSE {})
        \cup (IF fC /\ c.aC[1] <= 0 THEN {<<R(0), R(1)>>} ELSE {})
        \cup (IF fB /\ fC /\ c.aB[1] * c.aC[1] < 0
              THEN {<<Rat(Abs(c.aC[1]) * c.aB[2], c.aC[2] * c.aB[2]),
                      Rat(Abs(c.aB[1]) * c.aC[2], c.aC[2] * c.aB[2])>>}
              ELSE {})

(* q is at least as good as p for the objective's sense.                   *)
AsGood(m, q, p) ==
    IF Get(m.cost).sense = "maximize"
    THEN RLeq(ObjValue(m, p), ObjValue(m, q))
    ELSE RLeq(ObjValue(m, q), ObjValue(m, p))

Improving(m, r) ==
    IF Get(m.cost).sense = "maximize"
    THEN RLt(R(0), ObjValue(m, r))
    ELSE RLt(ObjValue(m, r), R(0))

(* The optimal vertices: what a simplex solver may return.                 *)
OptimalVertices(m) ==
    {p \in Vertices(m) : \A q \in Vertices(m) : AsGood(m, p, q)}

(* The termination condition the solver reports for the model.             *)
Termination(m) ==
    IF Vertices(m) = {} THEN "infeasible"
    ELSE IF \E r \in Rays(m) : Improving(m, r) THEN "unbounded"
    ELSE "optimal"

(* Pyomo's solver status for a termination condition.                      *)
SolverStatus(tc) == IF tc = "optimal" THEN "ok" ELSE "warning"

-----------------------------------------------------------------------------
(* The statements of the notebook in the order "Run All" executes them:    *)
(* c_ the step-by-step cells, s_ the "Complete Script" cell.               *)
Program ==
    <<"install_pyomo", "install_glpk",
      "c_pB", "c_pC", "c_rB", "c_rC", "c_dB", "c_dC", "c_T",
      "c_import", "c_model", "c_xB", "c_xC", "c_cost", "c_cnstr1",
      "c_solve", "c_status",
      "c_print_z", "c_print_hdr", "c_print_xB", "c_print_xC",
      "s_import", "s_model",
      "s_pB", "s_pC", "s_rB", "s_rC", "s_dB", "s_dC", "s_T",
      "s_xB", "s_xC", "s_cost", "s_cnstr1",
      "s_solve", "s_status",
      "s_print_z", "s_print_hdr", "s_print_xB", "s_print_xC">>

IndexOf(l) == CHOOSE i \in 1..Len(Program) : Program[i] = l

(* A faulty order: the report placed before the solver call.               *)
Succ_ReportBeforeSolve(l) ==
    CASE l = "s_cnstr1" -> "s_status"
      [] l = "s_print_xC" -> "s_solve"
      [] l = "s_solve" -> "done"
      [] OTHER -> Program[IndexOf(l) + 1]

(* The statement that runs after statement l returns normally.             *)
Succ(l) ==
    IF IndexOf(l) = Len(Program) THEN "done" ELSE Program[IndexOf(l) + 1]

(* The cell a statement belongs to: "c" step by step, "s" complete script. *)
By(l) ==
    IF IndexOf(l) >= IndexOf("s_import") THEN "s"
    ELSE IF IndexOf(l) >= IndexOf("c_pB") THEN "c"
    ELSE "install"

CellDataLabels == {"c_pB", "c_pC", "c_rB", "c_rC", "c_dB", "c_dC", "c_T"}
ScriptDataLabels == {"s_pB", "s_pC", "s_rB", "s_rC", "s_dB", "s_dC", "s_T"}

(* The name a data statement binds, and the literal it binds it to.        *)
NameOf(l) ==
    CASE l \in {"c_pB", "s_pB"} -> "pB"
      [] l \in {"c_pC", "s_pC"} -> "pC"
      [] l \in {"c_rB", "s_rB"} -> "rB"
      [] l \in {"c_rC", "s_rC"} -> "rC"
      [] l \in {"c_dB", "s_dB"} -> "dB"
      [] l \in {"c_dC", "s_dC"} -> "dC"
      [] l \in {"c_T", "s_T"} -> "T"

Literal(l) ==
    CASE l = "c_pB" -> Cell_pB [] l = "c_pC" -> Cell_pC
      [] l = "c_rB" -> Cell_rB [] l = "c_rC" -> Cell_rC
      [] l = "c_dB" -> Cell_dB [] l = "c_dC" -> Cell_dC
      [] l = "c_T" -> Cell_T
      [] l = "s_pB" -> Script_pB [] l = "s_pC" -> Script_pC
      [] l = "s_rB" -> Script_rB [] l = "s_rC" -> Script_rC
      [] l = "s_dB" -> Script_dB [] l = "s_dC" -> Script_dC
      [] l = "s_T" -> Script_T

(* What solve() may return for model m: the results object and the model   *)
(* with the solution loaded into its variables (only an optimal one is).   *)
SolveResults(m) ==
    LET tc == Termination(m)
        s  == [status |-> SolverStatus(tc), termination |-> tc]
    IN  IF tc = "optimal"
        THEN {[sol |-> s,
               model |-> [m EXCEPT !.xBval = Some(p[1]), !.xCval = Some(p[2])]]
              : p \in OptimalVertices(m)}
        ELSE {[sol |-> s, model |-> m]}

(* The solver status is OK.                                                *)
StatusOK(s) == s # None /\ Get(s).status = "ok"

-----------------------------------------------------------------------------
Envs ==
    [pyomo : BOOLEAN, glpkCmd : BOOLEAN, glpsol : BOOLEAN, colab : BOOLEAN,
     installer : {"none"}]

Init ==
    /\ pc = "install_pyomo"
    /\ env \in Envs
    /\ data = NoData
    /\ model = None
    /\ sol = None
    /\ out = <<>>
    /\ queried = {}
    /\ steps = <<>>
    /\ first = None

Step(next) ==
    /\ pc' = next
    /\ steps' = Append(steps, pc)

(* if not shutil.which("pyomo"): !pip install -q pyomo; assert which(..)   *)
InstallPyomo ==
    /\ pc = "install_pyomo"
    /\ \E ok \in BOOLEAN :
          LET have == env.pyomo \/ ok
          IN  /\ env' = [env EXCEPT !.pyomo = have]
              /\ Step(IF have THEN Succ(pc) ELSE "aborted")
    /\ UNCHANGED <<data, model, sol, out, queried, first>>

(* if not (which("glpk") or isfile("glpk")): apt-get on Colab, else conda  *)
(* inside try/except pass: a failed installation is not an error.          *)
InstallGlpk ==
    /\ pc = "install_glpk"
    /\ \E ok \in BOOLEAN :
          env' = IF env.glpkCmd THEN env
                 ELSE [env EXCEPT !.glpsol = env.glpsol \/ ok,
                                  !.installer = IF env.colab THEN "apt"
                                                ELSE "conda"]
    /\ Step(Succ(pc))
    /\ UNCHANGED <<data, model, sol, out, queried, first>>

(* pB = 25 ... T = 40                                                      *)
AssignData ==
    /\ pc \in CellDataLabels \cup ScriptDataLabels
    /\ data' = [data EXCEPT ![NameOf(pc)] = Some(Literal(pc))]
    /\ Step(Succ(pc))
    /\ UNCHANGED <<env, model, sol, out, queried, first>>

(* from pyomo.environ import ...                                           *)
Import ==
    /\ pc \in {"c_import", "s_import"}
    /\ Step(IF env.pyomo THEN Succ(pc) ELSE "aborted")
    /\ first' = IF pc = "s_import"
                THEN Some([data |-> data, model |-> model, sol |-> sol])
                ELSE first
    /\ UNCHANGED <<env, data, model, sol, out, queried>>

(* model = ConcreteModel()                                                 *)
NewModel ==
    /\ pc \in {"c_model", "s_model"}
    /\ model' = Some(ConcreteModel)
    /\ Step(Succ(pc))
    /\ UNCHANGED <<env, data, sol, out, queried, first>>

(* model.xB = Var(domain=NonNegativeReals, bounds=(0,dB))                  *)
DeclareXB ==
    /\ pc \in {"c_xB", "s_xB"}
    /\ model' = Some([Get(model) EXCEPT !.xB =
                        Some(IF pc = "c_xB" THEN Cell_DeclareXB(data)
                             ELSE Script_DeclareXB(data))])
    /\ Step(Succ(pc))
    /\ UNCHANGED <<env, data, sol, out, queried, first>>

(* model.xC = Var(domain=NonNegativeReals, bounds=(0,dC))                  *)
DeclareXC ==
    /\ pc \in {"c_xC", "s_xC"}
    /\ model' = Some([Get(model) EXCEPT !.xC =
                        Some(IF pc = "c_xC" THEN Cell_DeclareXC(data)
                             ELSE Script_DeclareXC(data))])
    /\ Step(Succ(pc))
    /\ UNCHANGED <<env, data, sol, out, queried, first>>

(* model.cost = Objective(expr = pB*model.xB + pC*model.xC, sense=maximize) *)
DeclareCost ==
    /\ pc \in {"c_cost", "s_cost"}
    /\ model' = Some([Get(model) EXCEPT !.cost =
                        Some(IF pc = "c_cost" THEN Cell_DeclareCost(data)
                             ELSE Script_DeclareCost(data))])
    /\ Step(Succ(pc))
    /\ UNCHANGED <<env, data, sol, out, queried, first>>

(* model.cnstr1 = Constraint(expr = 1/rB*model.xB + 1/rC*model.xC <= T);   *)
(* 1/rB raises ZeroDivisionError for a zero rate.                          *)
DeclareCnstr1 ==
    /\ pc \in {"c_cnstr1", "s_cnstr1"}
    /\ IF Get(data.rB) = 0 \/ Get(data.rC) = 0
       THEN /\ model' = model
            /\ Step("aborted")
       ELSE /\ model' = Some([Get(model) EXCEPT !.cnstr1 =
                        Some(IF pc = "c_cnstr1" THEN Cell_DeclareCnstr1(data)
                             ELSE Script_DeclareCnstr1(data))])
            /\ Step(Succ(pc))
    /\ UNCHANGED <<env, data, sol, out, queried, first>>

(* sol = SolverFactory('glpk').solve(model, tee=True): raises when the     *)
(* glpsol executable is missing.                                           *)
Solve ==
    /\ pc \in {"c_solve", "s_solve"}
    /\ IF ~env.glpsol
       THEN /\ UNCHANGED <<model, sol>>
            /\ Step("aborted")
       ELSE /\ \E r \in SolveResults(Get(model)) :
                  /\ sol' = Some(r.sol)
                  /\ model' = Some(r.model)
            /\ Step(Succ(pc))
    /\ UNCHANGED <<env, data, out, queried, first>>

(* for info in sol['Solver']: print(info)   (one entry per solver run)     *)
Status ==
    /\ pc \in {"c_status", "s_status"}
    /\ out' = Append(out, [by |-> By(pc), what |-> "status",
                           val |-> <<Get(sol).status, Get(sol).termination>>])
    /\ Step(Succ(pc))
    /\ UNCHANGED <<env, data, model, sol, queried, first>>

(* A query of a value of the model, at the solver status of the moment.    *)
Query(what) == [by |-> By(pc), what |-> what, ok |-> StatusOK(sol)]

HasValues(m) == m.xBval # None /\ m.xCval # None

(* print("Optimal solution value: z =", model.cost()): evaluating the      *)
(* objective raises ValueError when a variable has no value.               *)
PrintZ ==
    /\ pc \in {"c_print_z", "s_print_z"}
    /\ queried' = queried \cup {Query("cost")}
    /\ IF HasValues(Get(model))
       THEN /\ out' = Append(out, [by |-> By(pc), what |-> "z",
                  val |-> ObjValue(Get(model),
                             <<Get(Get(model).xBval), Get(Get(model).xCval)>>)])
            /\ Step(Succ(pc))
       ELSE /\ out' = out
            /\ Step("aborted")
    /\ UNCHANGED <<env, data, model, sol, first>>

(* print("Decision variables:")                                            *)
PrintHdr ==
    /\ pc \in {"c_print_hdr", "s_print_hdr"}
    /\ out' = Append(out, [by |-> By(pc), what |-> "hdr", val |-> <<>>])
    /\ Step(Succ(pc))
    /\ UNCHANGED <<env, data, model, sol, queried, first>>

(* print("\tProduction of bands:", model.xB())                             *)
PrintXB ==
    /\ pc \in {"c_print_xB", "s_print_xB"}
    /\ queried' = queried \cup {Query("xB")}
    /\ out' = Append(out, [by |-> By(pc), what |-> "xB",
                           val |-> Get(model).xBval])
    /\ Step(Succ(pc))
    /\ UNCHANGED <<env, data, model, sol, first>>

(* print("\tProduction of coils:", model.xC())                             *)
PrintXC ==
    /\ pc \in {"c_print_xC", "s_print_xC"}
    /\ queried' = queried \cup {Query("xC")}
    /\ out' = Append(out, [by |-> By(pc), what |-> "xC",
                           val |-> Get(model).xCval])
    /\ Step(Succ(pc))
    /\ UNCHANGED <<env, data, model, sol, first>>

Next ==
    \/ InstallPyomo \/ InstallGlpk \/ AssignData \/ Import \/ NewModel
    \/ DeclareXB \/ DeclareXC \/ DeclareCost \/ DeclareCnstr1
    \/ Solve \/ Status \/ PrintZ \/ PrintHdr \/ PrintXB \/ PrintXC

Spec == Init /\ [][Next]_vars

-----------------------------------------------------------------------------
(* The "Complete Script" cell on other data ("this may change, but the     *)
(* model stay the same"): the state after its data statements, with the    *)
(* seven names bound to values of a bounded range.                         *)
Prices == 0..MaxPrice
Rates == 0..MaxRate
Demands == (-1)..MaxDemand
Times == (-1)..MaxT

Instances ==
    {[n \in DataNames |->
        Some(CASE n = "pB" -> x[1] [] n = "pC" -> x[2] [] n = "rB" -> x[3]
               [] n = "rC" -> x[4] [] n = "dB" -> x[5] [] n = "dC" -> x[6]
               [] n = "T" -> x[7])]
     : x \in Prices \X Prices \X Rates \X Rates \X Demands \X Demands \X Times}

(* The instance the script's own data statements bind.                     *)
ScriptInstance ==
    [n \in DataNames |->
        Some(CASE n = "pB" -> Script_pB [] n = "pC" -> Script_pC
               [] n = "rB" -> Script_rB [] n = "rC" -> Script_rC
               [] n = "dB" -> Script_dB [] n = "dC" -> Script_dC
               [] n = "T" -> Script_T)]

(* The script's instance with dB or T changed, the rest as written.        *)
ScriptVariants ==
    {[ScriptInstance EXCEPT !.dB = Some(b), !.T = Some(t)]
     : b \in Demands \cup {Script_dB}, t \in Times \cup {Script_T}}

InitLP ==
    /\ pc = "s_xB"
    /\ env = [pyomo |-> TRUE, glpkCmd |-> FALSE, glpsol |-> TRUE,
              colab |-> FALSE, installer |-> "conda"]
    /\ data \in Instances \cup ScriptVariants
    /\ model = Some(ConcreteModel)
    /\ sol = None
    /\ out = <<>>
    /\ queried = {}
    /\ steps = <<"s_import", "s_model",
                 "s_pB", "s_pC", "s_rB", "s_rC", "s_dB", "s_dC", "s_T">>
    /\ first = None

NextLP ==
    \/ DeclareXB \/ DeclareXC \/ DeclareCost \/ DeclareCnstr1
    \/ Solve \/ Status \/ PrintZ \/ PrintHdr \/ PrintXB \/ PrintXC

SpecLP == InitLP /\ [][NextLP]_vars

-----------------------------------------------------------------------------
(* The model the "Complete Script" cell builds from the namespace d.       *)
ScriptModel(d) ==
    [ConcreteModel EXCEPT !.xB = Some(Script_DeclareXB(d)),
                          !.xC = Some(Script_DeclareXC(d)),
                          !.cost = Some(Script_DeclareCost(d)),
                          !.cnstr1 = Some(Script_DeclareCnstr1(d))]

(* The LP the notebook's introduction states: max pB xB + pC xC subject to *)
(* xB/rB + xC/rC <= T, xB >= 0, xC >= 0.                                   *)
StatedLP(d) ==
    [ConcreteModel EXCEPT
        !.xB = Some(Var(NonNegativeReals, R(0), None)),
        !.xC = Some(Var(NonNegativeReals, R(0), None)),
        !.cost = Some(Objective(R(Get(d.pB)), R(Get(d.pC)), "maximize")),
        !.cnstr1 = Some(Constraint(RDiv(R(1), R(Get(d.rB))),
                                   RDiv(R(1), R(Get(d.rC))), R(Get(d.T))))]

(* Every component of the model is declared.                               *)
Complete(m) ==
    /\ m # None
    /\ Get(m).xB # None /\ Get(m).xC # None
    /\ Get(m).cost # None /\ Get(m).cnstr1 # None

(* The solver has returned for the model of the moment, with a solution.   *)
Solved == Complete(model) /\ sol # None /\ HasValues(Get(model))

(* The point the model's variables hold.                                   *)
Point == <<Get(Get(model).xBval), Get(Get(model).xCval)>>

(* What a cell has printed.                                                *)
OutBy(b) == SelectSeq(out, LAMBDA e : e.by = b)
Printed(b, what) ==
    {i \in DOMAIN out : out[i].by = b /\ out[i].what = what}

-----------------------------------------------------------------------------
(* C1: for the notebook's data the model has the unique maximizer          *)
(* (xB, xC) = (6000, 1400) with objective value 192000, and every run      *)
(* prints this pair and this value.                                        *)
C1_FixedOptimum ==
    /\ \A i \in DOMAIN out :
          /\ out[i].what = "z" => out[i].val = R(192000)
          /\ out[i].what = "xB" => out[i].val = Some(R(6000))
          /\ out[i].what = "xC" => out[i].val = Some(R(1400))
    /\ Complete(model) =>
          /\ OptimalVertices(Get(model)) = {<<R(6000), R(1400)>>}
          /\ \A p \in OptimalVertices(Get(model)) :
                ObjValue(Get(model), p) = R(192000)

C1_Witness ==
    /\ pc = "done"
    /\ \E i \in Printed("s", "z") : out[i].val = R(192000)
    /\ \E i \in Printed("s", "xB") : out[i].val = Some(R(6000))
    /\ \E i \in Printed("s", "xC") : out[i].val = Some(R(1400))

(* C2: every value the script prints or holds for xB lies in [0, dB] and   *)
(* every one for xC in [0, dC].                                            *)
C2_WithinBounds ==
    /\ \A i \in DOMAIN out :
          /\ out[i].what = "xB" =>
                /\ RLeq(R(0), Get(out[i].val))
                /\ RLeq(Get(out[i].val), R(Get(data.dB)))
          /\ out[i].what = "xC" =>
                /\ RLeq(R(0), Get(out[i].val))
                /\ RLeq(Get(out[i].val), R(Get(data.dC)))
    /\ Solved =>
          /\ RLeq(R(0), Point[1]) /\ RLeq(Point[1], R(Get(data.dB)))
          /\ RLeq(R(0), Point[2]) /\ RLeq(Point[2], R(Get(data.dC)))

C2_Witness ==
    /\ pc = "done"
    /\ \E i \in Printed("s", "xB") :
          out[i].val = Some(R(Get(data.dB))) /\ Get(data.dB) > 0
    /\ \E i \in Printed("s", "xC") :
          RLt(R(0), Get(out[i].val)) /\ RLt(Get(out[i].val), R(Get(data.dC)))

(* C3: the printed values of xB and xC satisfy xB/rB + xC/rC <= T.         *)
C3_Capacity ==
    (Solved /\ Printed("s", "xC") # {}) =>
        \A i \in Printed("s", "xB"), j \in Printed("s", "xC") :
            RLeq(RAdd(RDiv(Get(out[i].val), R(Get(data.rB))),
                      RDiv(Get(out[j].val), R(Get(data.rC)))),
                 R(Get(data.T)))

C3_Witness ==
    /\ pc = "done"
    /\ \E i \in Printed("s", "xB"), j \in Printed("s", "xC") :
          /\ RLt(R(0), Get(out[i].val)) /\ RLt(R(0), Get(out[j].val))
          /\ RAdd(RDiv(Get(out[i].val), R(Get(data.rB))),
                  RDiv(Get(out[j].val), R(Get(data.rC)))) = R(Get(data.T))
          /\ Get(data.rB) # Get(data.rC)

OtherTimes == Times \cup {Script_T, Get(data.T) + 1}

(* C5: with the other parameters fixed, the optimal objective value for a  *)
(* larger T is not less than the one printed, and the one for a smaller T  *)
(* is not greater.                                                         *)
C5_Monotone ==
    (pc = "done" /\ Solved) =>
        \A i \in Printed("s", "z") : \A T2 \in OtherTimes :
            LET m2 == ScriptModel([data EXCEPT !.T = Some(T2)])
            IN  /\ T2 >= Get(data.T) =>
                      /\ Termination(m2) = "optimal"
                      /\ \A p \in OptimalVertices(m2) :
                            RLeq(out[i].val, ObjValue(m2, p))
                /\ T2 <= Get(data.T) =>
                      \A p \in OptimalVertices(m2) :
                            RLeq(ObjValue(m2, p), out[i].val)

C5_Witness ==
    /\ pc = "done" /\ Solved
    /\ \E i \in Printed("s", "z") : \E T2 \in OtherTimes :
          LET m2 == ScriptModel([data EXCEPT !.T = Some(T2)])
          IN  /\ T2 > Get(data.T)
              /\ \E p \in OptimalVertices(m2) : RLt(out[i].val, ObjValue(m2, p))

(* C6: with dB = 0 every optimal solution of the model has xB = 0, and so  *)
(* has the one printed.                                                    *)
C6_ZeroDemand ==
    Get(data.dB) = 0 =>
        /\ Complete(model) =>
              \A p \in OptimalVertices(Get(model)) : p[1] = R(0)
        /\ Solved => Point[1] = R(0)
        /\ \A i \in Printed("s", "xB") : out[i].val = Some(R(0))

C6_Witness ==
    /\ pc = "done"
    /\ Get(data.dB) = 0 /\ Get(data.pB) > 0 /\ Get(data.T) > 0
    /\ \E i \in Printed("s", "xB") : out[i].val = Some(R(0))

ScriptOrder ==
    <<"s_import", "s_model",
      "s_pB", "s_pC", "s_rB", "s_rC", "s_dB", "s_dC", "s_T",
      "s_xB", "s_xC", "s_cost", "s_cnstr1",
      "s_solve",
      "s_status", "s_print_z", "s_print_hdr", "s_print_xB", "s_print_xC">>

ScriptSteps == SelectSeq(steps, LAMBDA l : By(l) = "s")

Ran(l) == \E i \in DOMAIN steps : steps[i] = l

(* C7: the statements of the "Complete Script" cell run once each, in the  *)
(* order data, model construction, solver call, report; the solver is      *)
(* called once, on the fully constructed model, and nothing is printed     *)
(* before it has returned.                                                 *)
C7_Sequential ==
    /\ Len(ScriptSteps) <= Len(ScriptOrder)
    /\ ScriptSteps = SubSeq(ScriptOrder, 1, Len(ScriptSteps))
    /\ pc = "done" => ScriptSteps = ScriptOrder
    /\ Ran("s_solve") =>
          /\ Complete(model)
          /\ \A n \in DataNames : data[n] # None
    /\ (\E i \in DOMAIN out : out[i].by = "s") =>
          /\ Ran("s_solve")
          /\ sol # None

C7_Witness ==
    /\ pc = "done"
    /\ ScriptSteps = ScriptOrder
    /\ Len(OutBy("s")) = 5

C9_ScriptEqualsCells ==
    pc = "done" =>
        /\ Get(first).data = data
        /\ Get(first).model = model
        /\ Get(first).sol = sol
        /\ Len(OutBy("c")) = Len(OutBy("s"))
        /\ \A i \in 1..Len(OutBy("s")) :
              /\ OutBy("c")[i].what = OutBy("s")[i].what
              /\ OutBy("c")[i].val = OutBy("s")[i].val

C9_Witness ==
    /\ pc = "done"
    /\ Len(OutBy("c")) = 5 /\ Len(OutBy("s")) = 5
    /\ Complete(Get(first).model)

C10_Pre ==
    /\ Get(data.rB) > 0 /\ Get(data.rC) > 0
    /\ Get(data.dB) >= 0 /\ Get(data.dC) >= 0
    /\ Get(data.T) >= 0

(* C10: for rB > 0, rC > 0, dB >= 0, dC >= 0, T >= 0 (and prices >= 0) the *)
(* model is feasible at xB = xC = 0, its objective is at most              *)
(* pB*dB + pC*dC, and the solver terminates with an optimal solution.      *)
C10_FeasibleBounded ==
    (C10_Pre /\ Complete(model)) =>
        LET m == Get(model)
        IN  /\ Feasible(m, <<R(0), R(0)>>)
            /\ Rays(m) = {}
            /\ \A p \in Vertices(m) :
                  RLeq(ObjValue(m, p),
                       R(Get(data.pB) * Get(data.dB)
                         + Get(data.pC) * Get(data.dC)))
            /\ Termination(m) = "optimal"
            /\ sol # None =>
                  Get(sol).termination = "optimal" /\ HasValues(m)

C10_Witness ==
    /\ pc = "done" /\ C10_Pre
    /\ Get(data.T) = 0 /\ Get(data.dB) > 0
    /\ Get(sol).termination = "optimal"

=============================================================================
